---- MODULE Spec2Model ----
(***************************************************************************)
(* A model of src/src/core.js: the notification bus DS.Events (bind,       *)
(* unbind, trigger over a linked list of registrations), the delta         *)
(* classifiers of DS.Event, and the type registry DS.types with DS.typeOf. *)
(***************************************************************************)
EXTENDS Integers, Sequences, FiniteSets, TLC

(***************************************************************************)
(* Bounds of the model.                                                    *)
(***************************************************************************)
\* bind calls made on the bus object
MaxBinds == 2
\* bind and unbind calls the listeners make during one trigger call
MaxNested == 1

(***************************************************************************)
(* JavaScript values.                                                      *)
(***************************************************************************)
Undefined == "undefined"
Null == "null"
\* the receiver when a registration has no context (node.context || this)
This == "this"
\* what the caller of trigger gets when a listener throws
Exception == "exception"
\* a pointer is an index into heap; 0 stands for undefined
NoPtr == 0

\* event names a caller may pass; "" is the empty string
EventNames == {"", "x", "all"}
Callbacks == {"A", "B"}
\* the <<callback, context>> pairs a caller binds
Listeners == {<<"A", Undefined>>, <<"B", "ctx">>}
\* the trailing arguments a1..an of trigger
ArgLists == {<<5>>}

\* !v for the values a caller passes as ev, callback or context
Falsy(v) == v \in {Undefined, Null, ""}

VARIABLES
  heap,        \* the objects allocated by bind and unbind
  tables,      \* the _callbacks objects allocated by bind
  callbacks,   \* this._callbacks: index into tables, 0 when undefined or null
  nbinds,      \* number of bind calls so far (stamps registrations)
  pc,          \* "idle", or "callback" while trigger is inside callback.apply
  tEvents,     \* trigger: the events array
  tEv,         \* trigger: ev
  tNode,       \* trigger: node
  tCalls,      \* trigger: calls
  tArgs,       \* trigger: arguments
  log,         \* invocations made by the current or last trigger call
  mutated,     \* bind and unbind calls of listeners during this trigger call
  lastOp,      \* the last call on the bus and its return value
  removed,     \* registrations listeners unbound before their turn, this call
  delta,       \* the Delta handed to the classifiers of DS.Event
  verdict,     \* what isAdd, isDelete and isUpdate returned for delta
  regexpTable, \* DS.types.time._regexpTable: format -> lastIndex of its RegExp
  call,        \* the last call of DS.typeOf or of a descriptor's test
  eventArg,    \* the argument handed to new DS.Event or to _buildEvent
  event,       \* the DS.Event built from eventArg
  columns      \* what affectedColumns returned for event

busVars == <<heap, tables, callbacks, nbinds, pc, tEvents, tEv, tNode, tCalls,
             tArgs, log, mutated, lastOp, removed>>
deltaVars == <<delta, verdict>>
typeVars == <<regexpTable, call>>
eventVars == <<eventArg, event, columns>>
vars == <<busVars, deltaVars, typeVars, eventVars>>

\* the object literal {}
EmptyObject ==
  [callback |-> Undefined, context |-> Undefined, next |-> NoPtr,
   tail |-> NoPtr, seq |-> 0]

\* the _callbacks literal {}
EmptyTable == [e \in EventNames |-> NoPtr]

\* the store of one bus object: what bind and unbind read and write
Store(h, t, c) == [heap |-> h, tables |-> t, callbacks |-> c]

(***************************************************************************)
(* DS.Events.bind(ev, callback, context); stamp is the ghost number of the *)
(* call.  Each "x || (x = {})" allocates only when x is falsy.             *)
(***************************************************************************)
bind(h, t, c, ev, callback, context, stamp) ==
  LET \* var calls = this._callbacks || (this._callbacks = {});
      t1    == IF c = NoPtr THEN Append(t, EmptyTable) ELSE t
      calls == IF c = NoPtr THEN Len(t1) ELSE c
      \* var list = calls[ev] || (calls[ev] = {});
      newL  == t1[calls][ev] = NoPtr
      h1    == IF newL THEN Append(h, EmptyObject) ELSE h
      list  == IF newL THEN Len(h1) ELSE t1[calls][ev]
      t2    == [t1 EXCEPT ![calls][ev] = list]
      \* var tail = list.tail || (list.tail = list.next = {});
      newT  == h1[list].tail = NoPtr
      h2    == IF newT
               THEN [Append(h1, EmptyObject) EXCEPT ![list].tail = Len(h1) + 1,
                                                    ![list].next = Len(h1) + 1]
               ELSE h1
      tail  == h2[list].tail
      \* tail.callback = callback; tail.context = context;
      h3    == [h2 EXCEPT ![tail].callback = callback,
                          ![tail].context = context,
                          ![tail].seq = stamp]
      \* list.tail = tail.next = {};
      h4    == [Append(h3, EmptyObject) EXCEPT ![tail].next = Len(h3) + 1,
                                               ![list].tail = Len(h3) + 1]
  IN  Store(h4, t2, calls)

(***************************************************************************)
(* DS.Events.unbind(ev, callback).  A missing argument is Undefined.       *)
(***************************************************************************)
\* while ((prev = node) && (node = node.next)): the prev of the first node
\* whose callback === callback, NoPtr when the walk falls off the list
RECURSIVE unbindWalk(_, _, _)
unbindWalk(h, prev, callback) ==
  LET node == h[prev].next
  IN  IF node = NoPtr THEN NoPtr
      ELSE IF h[node].callback # callback THEN unbindWalk(h, node, callback)
      ELSE prev

unbind(h, t, c, ev, callback) ==
  IF Falsy(ev) THEN
    \* this._callbacks = null;
    Store(h, t, NoPtr)
  ELSE IF c = NoPtr THEN
    Store(h, t, c)
  ELSE IF Falsy(callback) THEN
    \* calls[ev] = {};
    Store(Append(h, EmptyObject), [t EXCEPT ![c][ev] = Len(h) + 1], c)
  ELSE IF t[c][ev] = NoPtr THEN
    Store(h, t, c)
  ELSE
    LET prev == unbindWalk(h, t[c][ev], callback)
        node == h[prev].next
    IN  IF prev = NoPtr THEN Store(h, t, c)
        ELSE \* prev.next = node.next; node.context = node.callback = null;
             Store([h EXCEPT ![prev].next = h[node].next,
                             ![node].context = Null,
                             ![node].callback = Null], t, c)

(***************************************************************************)
(* DS.Events.trigger(eventName, a1..an).  The two loops run until the next *)
(* callback.apply or until the function returns; the listener then runs,   *)
(* and may call bind and unbind, before the loops resume.                  *)
(***************************************************************************)
\* where the loops stand: at a callback.apply on node, or returned (done)
AtCallback(events, ev, node) ==
  [done |-> FALSE, events |-> events, ev |-> ev, node |-> node]
Returned == [done |-> TRUE, events |-> <<>>, ev |-> Undefined, node |-> NoPtr]

\* the event names in the order that pops "all" first
eventsAllFirst(eventName) == <<eventName, "all">>

\* events = ['all', eventName];
triggerEvents(eventName) == <<"all", eventName>>

RECURSIVE triggerInner(_, _, _, _, _, _)
RECURSIVE triggerOuter(_, _, _, _)

\* while (ev = events.pop()) { if (!(node = calls[ev])) continue; ... }
triggerOuter(h, t, calls, events) ==
  IF events = <<>> THEN Returned
  ELSE LET ev   == events[Len(events)]
           rest == SubSeq(events, 1, Len(events) - 1)
       IN  IF Falsy(ev) THEN Returned
           ELSE IF t[calls][ev] = NoPtr THEN triggerOuter(h, t, calls, rest)
           ELSE triggerInner(h, t, calls, rest, ev, t[calls][ev])

\* while (node = node.next) { if (callback = node.callback) callback.apply(..) }
triggerInner(h, t, calls, events, ev, node) ==
  LET next == h[node].next
  IN  IF next = NoPtr THEN triggerOuter(h, t, calls, events)
      ELSE IF Falsy(h[next].callback)
           THEN triggerInner(h, t, calls, events, ev, next)
      ELSE AtCallback(events, ev, next)

\* a trigger whose loops go on after a listener threw, as if the call were
\* wrapped in try {} catch {}
triggerCaught(h, t, calls, events, ev, node) ==
  triggerInner(h, t, calls, events, ev, node)

\* callback.apply throws: no try statement encloses it, so the exception
\* ends both loops and leaves trigger
triggerThrown(h, t, calls, events, ev, node) == Returned

\* args = ev == 'all' ? arguments : Array.prototype.slice.call(arguments, 1);
triggerArgs(ev, arguments) ==
  IF ev = "all" THEN arguments ELSE SubSeq(arguments, 2, Len(arguments))

\* callback.apply(node.context || this, args), as the listener sees it
Invocation(h, ev, node, arguments) ==
  [ev       |-> ev,
   callback |-> h[node].callback,
   receiver |-> IF Falsy(h[node].context) THEN This ELSE h[node].context,
   args     |-> triggerArgs(ev, arguments),
   seq      |-> h[node].seq]

(***************************************************************************)
(* Garbage collection of the JavaScript runtime (no line of core.js):      *)
(* objects no reference reaches are dropped and the others keep their      *)
(* order.  No call can observe it.                                         *)
(***************************************************************************)
RECURSIVE Reachable(_, _)
Reachable(h, S) ==
  LET S2 == (S \cup {h[p].next : p \in S} \cup {h[p].tail : p \in S}) \ {NoPtr}
  IN  IF S2 = S THEN S ELSE Reachable(h, S2)

\* the pointers of L among 1..n, in increasing order
RECURSIVE Kept(_, _)
Kept(L, n) ==
  IF n = 0 THEN <<>>
  ELSE IF n \in L THEN Append(Kept(L, n - 1), n) ELSE Kept(L, n - 1)

\* the place of pointer p in the sequence kept, NoPtr for NoPtr
RECURSIVE Moved(_, _)
Moved(kept, p) ==
  IF p = NoPtr \/ kept = <<>> THEN NoPtr
  ELSE IF kept[Len(kept)] = p THEN Len(kept)
  ELSE Moved(SubSeq(kept, 1, Len(kept) - 1), p)

Collect(h, t, c, tc, node) ==
  LET LT == {c, tc} \ {NoPtr}
      L  == Reachable(h, ({t[k][e] : k \in LT, e \in EventNames} \cup {node})
                           \ {NoPtr})
  IN  LET kt == Kept(LT, Len(t))
          kh == Kept(L, Len(h))
      IN  [heap      |-> [i \in 1..Len(kh) |->
                            [h[kh[i]] EXCEPT !.next = Moved(kh, @),
                                             !.tail = Moved(kh, @)]],
           tables    |-> [i \in 1..Len(kt) |->
                            [e \in EventNames |-> Moved(kh, t[kt[i]][e])]],
           callbacks |-> Moved(kt, c),
           tCalls    |-> Moved(kt, tc),
           tNode     |-> Moved(kh, node)]


(***************************************************************************)
(* The bus without the bookkeeping of an observer: nbinds, log, lastOp and *)
(* removed stay as they are, registrations carry no stamp, so that a       *)
(* dispatch that goes on for ever shows as a cycle of states.  mutated     *)
(* counts the calls of the listener that is running.                       *)
(***************************************************************************)
\* objects of the bus alive at one time
MaxObjects == 5
\* bind and unbind calls one listener invocation makes
MaxCalls == 2

Quiet(s) ==
  /\ \E g \in {Collect(s.heap, s.tables, s.callbacks, tCalls, tNode)} :
         /\ Len(g.heap) <= MaxObjects
         /\ heap' = g.heap
         /\ tables' = g.tables
         /\ callbacks' = g.callbacks
         /\ tCalls' = g.tCalls
         /\ tNode' = g.tNode
  /\ mutated' = IF pc = "callback" THEN mutated + 1 ELSE 0
  /\ UNCHANGED <<nbinds, pc, tEvents, tEv, tArgs, log, lastOp, removed,
                 deltaVars, typeVars, eventVars>>

QuietBind(ev, callback, context) ==
  /\ pc = "callback" => mutated < MaxCalls
  /\ \E s \in {bind(heap, tables, callbacks, ev, callback, context,
                     EmptyObject.seq)} : Quiet(s)

QuietUnbind(ev, callback) ==
  /\ pc = "callback" => mutated < MaxCalls
  /\ \E s \in {unbind(heap, tables, callbacks, ev, callback)} : Quiet(s)

\* the loops stopped at r: enter the callback, or return this
QuietResume(r, calls, arguments) ==
  /\ \E g \in {Collect(heap, tables, callbacks,
                      IF r.done THEN NoPtr ELSE calls, r.node)} :
         /\ heap' = g.heap
         /\ tables' = g.tables
         /\ callbacks' = g.callbacks
         /\ tCalls' = g.tCalls
         /\ tNode' = g.tNode
  /\ pc' = IF r.done THEN "idle" ELSE "callback"
  /\ tEvents' = r.events
  /\ tEv' = r.ev
  /\ tArgs' = IF r.done THEN <<>> ELSE arguments
  /\ mutated' = 0
  /\ UNCHANGED <<nbinds, log, lastOp, removed, deltaVars, typeVars, eventVars>>

QuietTrigger(eventName) ==
  /\ pc = "idle"
  /\ IF callbacks = NoPtr
     THEN QuietResume(Returned, NoPtr, <<eventName>>)
     ELSE \E r \in {triggerOuter(heap, tables, callbacks,
                                 triggerEvents(eventName))} :
            QuietResume(r, callbacks, <<eventName>>)

\* the running listener returns and the loops of trigger go on
QuietReturn ==
  /\ pc = "callback"
  /\ \E r \in {triggerInner(heap, tables, tCalls, tEvents, tEv, tNode)} :
       QuietResume(r, tCalls, tArgs)

NextLoop ==
  \/ \E ev \in EventNames, l \in Listeners : QuietBind(ev, l[1], l[2])
  \/ \E ev \in EventNames \cup {Undefined},
        callback \in Callbacks \cup {Undefined} :
       QuietUnbind(ev, callback)
  \/ \E eventName \in EventNames : QuietTrigger(eventName)
  \/ QuietReturn

(***************************************************************************)
(* The registrations of event e: the nodes that hold a callback, in the    *)
(* order in which the next pointers reach them from the head calls[e].     *)
(***************************************************************************)
RECURSIVE Chain(_, _)
Chain(h, node) ==
  IF node = NoPtr THEN <<>>
  ELSE (IF Falsy(h[node].callback) THEN <<>>
        ELSE <<[callback |-> h[node].callback, context |-> h[node].context,
                seq |-> h[node].seq]>>) \o Chain(h, h[node].next)

RegsOf(h, t, c, e) ==
  IF c = NoPtr THEN <<>>
  ELSE IF t[c][e] = NoPtr THEN <<>>
  ELSE Chain(h, h[t[c][e]].next)

\* the stamps of all the registrations of the bus
Bound(h, t, c) ==
  UNION {{r.seq : r \in {RegsOf(h, t, c, e)[i] :
                            i \in 1..Len(RegsOf(h, t, c, e))}} : e \in EventNames}

\* which branch of unbind a call takes
Form(ev, callback) ==
  IF Falsy(ev) THEN "unbind()"
  ELSE IF Falsy(callback) THEN "unbind(e)" ELSE "unbind(e, cb)"

(***************************************************************************)
(* The bus as a state machine: a caller, or the listener that is running,  *)
(* calls bind and unbind; a caller calls trigger; a listener returns.      *)
(***************************************************************************)
NoOp == [op |-> "none", ev |-> Undefined, callback |-> Undefined,
         context |-> Undefined, args |-> <<>>, ret |-> Undefined]

InitBus ==
  /\ heap = <<>>
  /\ tables = <<>>
  /\ callbacks = NoPtr
  /\ nbinds = 0
  /\ pc = "idle"
  /\ tEvents = <<>>
  /\ tEv = Undefined
  /\ tNode = NoPtr
  /\ tCalls = NoPtr
  /\ tArgs = <<>>
  /\ log = <<>>
  /\ mutated = 0
  /\ lastOp = NoOp
  /\ removed = {}

Bind(ev, callback, context) ==
  /\ nbinds < MaxBinds
  /\ \E s \in {bind(heap, tables, callbacks, ev, callback, context,
                     nbinds + 1)} :
     \E g \in {Collect(s.heap, s.tables, s.callbacks, tCalls, tNode)} :
         /\ heap' = g.heap
         /\ tables' = g.tables
         /\ callbacks' = g.callbacks
         /\ tCalls' = g.tCalls
         /\ tNode' = g.tNode
  /\ nbinds' = nbinds + 1
  /\ pc = "callback" => mutated < MaxNested
  /\ mutated' = IF pc = "callback" THEN mutated + 1 ELSE 0
  /\ lastOp' = [op |-> "bind", ev |-> ev, callback |-> callback,
                context |-> context, args |-> <<>>, ret |-> This]
  /\ IF pc = "idle" THEN tArgs' = <<>> /\ log' = <<>> /\ removed' = {}
                    ELSE UNCHANGED <<tArgs, log, removed>>
  /\ UNCHANGED <<pc, tEvents, tEv, deltaVars, typeVars, eventVars>>

Unbind(ev, callback) ==
  /\ \E s \in {unbind(heap, tables, callbacks, ev, callback)} :
     \E g \in {Collect(s.heap, s.tables, s.callbacks, tCalls, tNode)} :
         /\ heap' = g.heap
         /\ tables' = g.tables
         /\ callbacks' = g.callbacks
         /\ tCalls' = g.tCalls
         /\ tNode' = g.tNode
         /\ removed' =
              IF pc = "idle" THEN {}
              ELSE removed \cup
                   {[seq |-> q, form |-> Form(ev, callback)] :
                      q \in (Bound(heap, tables, callbacks)
                               \ Bound(s.heap, s.tables, s.callbacks))
                              \ {log[i].seq : i \in 1..Len(log)}}
  /\ pc = "callback" => mutated < MaxNested
  /\ mutated' = IF pc = "callback" THEN mutated + 1 ELSE 0
  /\ lastOp' = [op |-> "unbind", ev |-> ev, callback |-> callback,
                context |-> Undefined, args |-> <<>>, ret |-> This]
  /\ IF pc = "idle" THEN tArgs' = <<>> /\ log' = <<>>
                    ELSE UNCHANGED <<tArgs, log>>
  /\ UNCHANGED <<nbinds, pc, tEvents, tEv, deltaVars, typeVars, eventVars>>

\* the loops stopped at r: enter the callback, or leave trigger with outcome
Advance(r, calls, arguments, sofar, outcome) ==
  /\ \E g \in {Collect(heap, tables, callbacks,
                      IF r.done THEN NoPtr ELSE calls, r.node)} :
         /\ heap' = g.heap
         /\ tables' = g.tables
         /\ callbacks' = g.callbacks
         /\ tCalls' = g.tCalls
         /\ tNode' = g.tNode
  /\ pc' = IF r.done THEN "idle" ELSE "callback"
  /\ log' = IF r.done THEN sofar
            ELSE Append(sofar, Invocation(heap, r.ev, r.node, arguments))
  /\ lastOp' = [op |-> IF outcome = Exception THEN "throw"
                       ELSE IF r.done THEN "trigger" ELSE "dispatching",
                ev |-> arguments[1], callback |-> Undefined,
                context |-> Undefined,
                args |-> SubSeq(arguments, 2, Len(arguments)),
                ret |-> IF r.done THEN outcome ELSE Undefined]
  /\ tEvents' = r.events
  /\ tEv' = r.ev
  /\ tArgs' = arguments

\* the loops stopped at r: enter the callback, or return this
Resume(r, calls, arguments, sofar) == Advance(r, calls, arguments, sofar, This)

Trigger(eventName, args) ==
  /\ pc = "idle"
  /\ LET arguments == <<eventName>> \o args
     IN  IF callbacks = NoPtr
         THEN \* if (!(calls = this._callbacks)) return this;
              Resume(Returned, NoPtr, arguments, <<>>)
         ELSE \E r \in {triggerOuter(heap, tables, callbacks,
                                     triggerEvents(eventName))} :
                Resume(r, callbacks, arguments, <<>>)
  /\ mutated' = 0
  /\ removed' = {}
  /\ UNCHANGED <<nbinds, deltaVars, typeVars, eventVars>>

\* the running listener returns and the loops of trigger go on
Return ==
  /\ pc = "callback"
  /\ \E r \in {triggerInner(heap, tables, tCalls, tEvents, tEv, tNode)} :
       Resume(r, tCalls, tArgs, log)
  /\ UNCHANGED <<nbinds, mutated, removed, deltaVars, typeVars, eventVars>>

\* the running listener throws: the exception leaves callback.apply, the two
\* loops and trigger
Throw ==
  /\ pc = "callback"
  /\ \E r \in {triggerThrown(heap, tables, tCalls, tEvents, tEv, tNode)} :
       Advance(r, tCalls, tArgs, log, Exception)
  /\ UNCHANGED <<nbinds, mutated, removed, deltaVars, typeVars, eventVars>>

NextBus ==
  \/ \E ev \in EventNames, l \in Listeners : Bind(ev, l[1], l[2])
  \/ \E ev \in EventNames \cup {Undefined},
        callback \in Callbacks \cup {Undefined} :
       Unbind(ev, callback)
  \/ \E eventName \in EventNames, args \in ArgLists : Trigger(eventName, args)
  \/ Return
  \/ Throw

Regs(e) == RegsOf(heap, tables, callbacks, e)
RegsAfter(e) == RegsOf(heap', tables', callbacks', e)

\* the invocations of the log made for the listeners of event e
LogOf(l, e) == SelectSeq(l, LAMBDA i : i.ev = e)
\* the registrations of sequence r that are not bound to callback cb
Without(r, cb) == SelectSeq(r, LAMBDA x : x.callback # cb)
\* the registrations of sequence r that are bound to callback cb
Only(r, cb) == SelectSeq(r, LAMBDA x : x.callback = cb)
Seqs(r) == [i \in 1..Len(r) |-> r[i].seq]
Increasing(q) == \A i, j \in 1..Len(q) : i < j => q[i] < q[j]

\* a trigger call has returned and no listener called bind or unbind in it
Dispatched == lastOp.op = "trigger" /\ mutated = 0

(***************************************************************************)
(* DS.Event: the classifiers of a Delta {old, changed}.  An object is the  *)
(* sequence of its <<field, value>> pairs; a property of the delta is      *)
(* Absent (undefined) or Present(object).                                  *)
(***************************************************************************)
Fields == {"name", "age"}
FieldValues == {"Bob", "Rob"}

Objects ==
  {<<>>}
  \cup {<<<<f, v>>>> : f \in Fields, v \in FieldValues}
  \cup {o \in {<<<<f, v>>, <<g, w>>>> : f \in Fields, g \in Fields,
                                       v \in FieldValues, w \in FieldValues} :
          o[1][1] # o[2][1]}
Absent == [present |-> FALSE, obj |-> <<>>]
Present(o) == [present |-> TRUE, obj |-> o]
Properties == {Absent} \cup {Present(o) : o \in Objects}
Deltas == [old : Properties, changed : Properties]

\* _.isUndefined(v)
isUndefined(v) == ~v.present
\* _.keys(obj)
keys(v) == [i \in 1..Len(v.obj) |-> v.obj[i][1]]

isDelete(d) ==
  IF isUndefined(d.changed) THEN TRUE
  ELSE IF Len(keys(d.changed)) = 0 THEN TRUE
  ELSE FALSE

isAdd(d) ==
  IF isUndefined(d.old) THEN TRUE
  ELSE IF Len(keys(d.old)) = 0 THEN TRUE
  ELSE FALSE

\* isUpdate that forgets the check of isAdd
isUpdateForgetsAdd(d) ==
  IF ~isDelete(d) THEN TRUE ELSE FALSE

isUpdate(d) ==
  IF ~isDelete(d) /\ ~isAdd(d) THEN TRUE ELSE FALSE

NoVerdict == [isAdd |-> FALSE, isDelete |-> FALSE, isUpdate |-> FALSE,
              known |-> FALSE]

InitDelta ==
  /\ delta \in Deltas
  /\ verdict = NoVerdict

\* the caller asks the three classifiers about its delta
Classify ==
  /\ ~verdict.known
  /\ verdict' = [isAdd |-> isAdd(delta), isDelete |-> isDelete(delta),
                 isUpdate |-> isUpdate(delta), known |-> TRUE]
  /\ UNCHANGED <<delta, busVars, typeVars, eventVars>>

\* the caller takes up another delta
NewDelta ==
  /\ verdict.known
  /\ delta' \in Deltas
  /\ verdict' = NoVerdict
  /\ UNCHANGED <<busVars, typeVars, eventVars>>

NextDelta == Classify \/ NewDelta

(***************************************************************************)
(* DS.Event: the constructor, _buildEvent and affectedColumns.  The        *)
(* argument of the constructor is one delta or an array of deltas.         *)
(***************************************************************************)
MaxDeltas == 2
\* the deltas events are built from: one value per field is enough, since
\* affectedColumns reads the field names only
EventDeltas ==
  {d \in Deltas : /\ \A i \in 1..Len(d.old.obj) : d.old.obj[i][2] = "Bob"
                  /\ \A i \in 1..Len(d.changed.obj) : d.changed.obj[i][2] = "Rob"}
NoDelta == [old |-> Absent, changed |-> Absent]
OneDelta(d) == [array |-> FALSE, delta |-> d, elems |-> <<>>]
ArrayOf(q) == [array |-> TRUE, delta |-> NoDelta, elems |-> q]
EventArgs ==
  {OneDelta(d) : d \in EventDeltas}
  \cup {ArrayOf(q) : q \in UNION {[1..n -> EventDeltas] : n \in 0..MaxDeltas}}

\* _.isArray(deltas)
isArray(v) == v.array

\* new DS.Event(deltas): the value of this.deltas
Event(deltas) ==
  IF ~isArray(deltas) THEN <<deltas.delta>> ELSE deltas.elems

\* _buildEvent(delta)
buildEvent(d) == Event(d)

\* _.uniq(q): the first occurrence of each element, in order
RECURSIVE uniq(_)
uniq(q) ==
  IF q = <<>> THEN <<>>
  ELSE LET init == uniq(SubSeq(q, 1, Len(q) - 1))
           last == q[Len(q)]
       IN  IF \E i \in 1..Len(init) : init[i] = last THEN init
           ELSE Append(init, last)

\* _.union(a, b, c)
union(a, b, c) == uniq(a \o b \o c)

Threw == [threw |-> TRUE, cols |-> <<>>]
ReturnedColumns(cols) == [threw |-> FALSE, cols |-> cols]

\* affectedColumns() on this.deltas, cols being the array so far.  _.keys of
\* undefined is a TypeError in the underscore releases that delegate to
\* Object.keys and [] in the later ones (underscore is not part of core.js):
\* lenient tells which of the two the build has.
RECURSIVE affectedColumns(_, _, _)
affectedColumns(deltas, cols, lenient) ==
  IF deltas = <<>> THEN ReturnedColumns(cols)
  ELSE LET d == Head(deltas)
       IN  IF ~lenient /\ (isUndefined(d.old) \/ isUndefined(d.changed))
           THEN Threw
           ELSE affectedColumns(Tail(deltas),
                                union(cols, keys(d.old), keys(d.changed)),
                                lenient)

NoArg == ArrayOf(<<>>)
NoEvent == [built |-> FALSE, deltas |-> <<>>, by |-> "none"]
NoColumns == [known |-> FALSE, threw |-> FALSE, cols |-> <<>>]

EventAtRest == eventArg = NoArg /\ event = NoEvent /\ columns = NoColumns

InitEvent ==
  /\ eventArg \in EventArgs
  /\ event = NoEvent
  /\ columns = NoColumns

\* the caller builds the event with new DS.Event(eventArg)
NewEvent ==
  /\ ~event.built
  /\ event' = [built |-> TRUE, deltas |-> Event(eventArg), by |-> "new"]
  /\ UNCHANGED <<eventArg, columns, busVars, deltaVars, typeVars>>

\* the caller builds the event with _buildEvent(eventArg)
BuildEvent ==
  /\ ~event.built
  /\ event' = [built |-> TRUE, deltas |-> buildEvent(eventArg),
                by |-> "_buildEvent"]
  /\ UNCHANGED <<eventArg, columns, busVars, deltaVars, typeVars>>

\* the caller asks the event for its affected columns
AffectedColumns(lenient) ==
  /\ event.built
  /\ ~columns.known
  /\ \E r \in {affectedColumns(event.deltas, <<>>, lenient)} :
       columns' = [known |-> TRUE, threw |-> r.threw, cols |-> r.cols]
  /\ UNCHANGED <<eventArg, event, busVars, deltaVars, typeVars>>

NextEvent ==
  \/ NewEvent
  \/ BuildEvent
  \/ \E lenient \in BOOLEAN : AffectedColumns(lenient)

(***************************************************************************)
(* DS.types and DS.typeOf.  A string is the sequence of its characters; a  *)
(* raw value is a native boolean, a native number, null or a string.       *)
(***************************************************************************)
Bool(b) == [t |-> "boolean", b |-> b, n |-> 0, s |-> <<>>]
Num(n) == [t |-> "number", b |-> FALSE, n |-> n, s |-> <<>>]
NullValue == [t |-> "null", b |-> FALSE, n |-> 0, s |-> <<>>]
Str(s) == [t |-> "string", b |-> FALSE, n |-> 0, s |-> s]

Strings ==
  { <<"t", "r", "u", "e">>, <<"f", "a", "l", "s", "e">>, <<"4", "2">>,
    <<"-", "4", ".", "2">>, <<".", "5">>, <<"4", ".">>,
    <<"h", "e", "l", "l", "o">>, <<>>,
    <<"0", "1", "/", "0", "1", "/", "2", "0", "0", "0">>,
    <<"x", "0", "1", "/", "0", "1", "/", "2", "0", "0", "0">>,
    <<"0", "1", "/", "0", "1", "/", "2", "0">> }
RawValues ==
  {Bool(TRUE), Bool(FALSE), Num(42), Num(0 - 7), NullValue}
  \cup {Str(s) : s \in Strings}

Digits == <<"0", "1", "2", "3", "4", "5", "6", "7", "8", "9">>
IsDigit(ch) == \E i \in 1..Len(Digits) : Digits[i] = ch

\* String(n) for a native integer
RECURSIVE NatToString(_)
NatToString(n) ==
  IF n < Len(Digits) THEN <<Digits[n + 1]>>
  ELSE Append(NatToString(n \div Len(Digits)), Digits[(n % Len(Digits)) + 1])

\* the conversion RegExp.prototype.test applies to its argument
toString(v) ==
  CASE v.t = "string" -> v.s
    [] v.t = "boolean" -> IF v.b THEN <<"t", "r", "u", "e">>
                          ELSE <<"f", "a", "l", "s", "e">>
    [] v.t = "null" -> <<"n", "u", "l", "l">>
    [] v.t = "number" -> IF v.n < 0 THEN <<"-">> \o NatToString(0 - v.n)
                         ELSE NatToString(v.n)

\* [0-9]+
IsDigits(s) == Len(s) >= 1 /\ \A i \in 1..Len(s) : IsDigit(s[i])

\* /^(true|false)$/.test(s)
booleanRegexp(s) == s \in {<<"t", "r", "u", "e">>, <<"f", "a", "l", "s", "e">>}

\* /^[\-\.]?[0-9]+([\.][0-9]+)?$/.test(s)
numberRegexp(s) ==
  LET body(r) ==
        \/ IsDigits(r)
        \/ \E k \in 1..Len(r) : /\ r[k] = "."
                                /\ IsDigits(SubSeq(r, 1, k - 1))
                                /\ IsDigits(SubSeq(r, k + 1, Len(r)))
  IN  \/ body(s)
      \/ Len(s) >= 1 /\ s[1] \in {"-", "."} /\ body(Tail(s))

string_test(v) == v.t = "string"

boolean_test(v) ==
  IF v.t = "boolean" \/ booleanRegexp(toString(v)) THEN TRUE ELSE FALSE

number_test(v) ==
  IF v.t = "number" \/ numberRegexp(toString(v)) THEN TRUE ELSE FALSE

(***************************************************************************)
(* DS.types.time.  A compiled pattern is a sequence of atoms: DigitAtom    *)
(* for \d, or a character for itself.  A RegExp object is its pattern and  *)
(* its lastIndex; the patterns are compiled with the flag g.               *)
(***************************************************************************)
DigitAtom == "\\d"
\* time.format
format == <<"D", "D", "/", "M", "M", "/", "Y", "Y", "Y", "Y">>
\* time._formatLookup, \d{k} as k atoms
formatLookup ==
  << <<<<"D", "D">>, <<DigitAtom, DigitAtom>>>>,
     <<<<"M", "M">>, <<DigitAtom, DigitAtom>>>>,
     <<<<"Y", "Y", "Y", "Y">>, <<DigitAtom, DigitAtom, DigitAtom, DigitAtom>>>>,
     <<<<"Y", "Y">>, <<DigitAtom, DigitAtom>>>> >>

\* the format a caller passes to time.test besides none
ShortFormat == <<"D", "D", "/", "M", "M", "/", "Y", "Y">>
\* no format argument (or the empty string, which is falsy as well)
NoFormat == <<>>
FormatArgs == {NoFormat, ShortFormat}
\* the keys _regexpTable may get
Formats == {format, ShortFormat}

\* the first index from which sub occurs in s, 0 when it does not
IndexOf(s, sub) ==
  LET at == {p \in 1..(Len(s) - Len(sub) + 1) :
               SubSeq(s, p, p + Len(sub) - 1) = sub}
  IN  IF at = {} THEN 0 ELSE CHOOSE p \in at : \A q \in at : p <= q

\* String.prototype.replace(token, by): the first occurrence only
replace(s, token, by) ==
  LET p == IndexOf(s, token)
  IN  IF p = 0 THEN s
      ELSE SubSeq(s, 1, p - 1) \o by \o SubSeq(s, p + Len(token), Len(s))

\* _.each(this._formatLookup, ...) from pair i on
RECURSIVE compile(_, _)
compile(regexp, i) ==
  IF i > Len(formatLookup) THEN regexp
  ELSE compile(replace(regexp, formatLookup[i][1], formatLookup[i][2]), i + 1)

NoRegExp == [source |-> <<>>, lastIndex |-> 0 - 1]
EmptyRegexpTable == [f \in Formats |-> NoRegExp]

\* time._regexp(format): the table after the call; the RegExp is table[format]
regexp(table, f) ==
  IF table[f] # NoRegExp THEN table
  ELSE [table EXCEPT ![f] = [source |-> compile(f, 1), lastIndex |-> 0]]

AtomMatches(atom, ch) == IF atom = DigitAtom THEN IsDigit(ch) ELSE atom = ch

\* the pattern matches s from index p (counted from 0)
MatchesAt(source, s, p) ==
  /\ p + Len(source) <= Len(s)
  /\ \A i \in 1..Len(source) : AtomMatches(source[i], s[p + i])

\* RegExp.prototype.test of a RegExp with the flag g: the search starts at
\* lastIndex, a match moves lastIndex to its end and a failure resets it
regexpTest(re, s) ==
  LET at == {p \in re.lastIndex..Len(s) : MatchesAt(re.source, s, p)}
      p  == CHOOSE q \in at : \A r \in at : q <= r
  IN  IF re.lastIndex > Len(s) \/ at = {}
      THEN [result |-> FALSE, re |-> [re EXCEPT !.lastIndex = 0]]
      ELSE [result |-> TRUE,
            re |-> [re EXCEPT !.lastIndex = p + Len(re.source)]]

Answer(result, table) == [result |-> result, table |-> table]

\* time.test(v, format) on the table given
time_test(table, v, f) ==
  IF v.t = "string"
  THEN LET \* format = format || this.format;
           fmt == IF f = NoFormat THEN format ELSE f
           tbl == regexp(table, fmt)
           r   == regexpTest(tbl[fmt], v.s)
       IN  Answer(r.result, [tbl EXCEPT ![fmt] = r.re])
  ELSE Answer(TRUE, table)

\* DS.types[type].test(v, f) on the table given
test(table, type, v, f) ==
  CASE type = "string" -> Answer(string_test(v), table)
    [] type = "boolean" -> Answer(boolean_test(v), table)
    [] type = "number" -> Answer(number_test(v), table)
    [] type = "time" -> time_test(table, v, f)

\* _.keys(DS.types)
typeNames == <<"string", "boolean", "number", "time">>

\* types.push(types.splice(_.indexOf(types, 'string'), 1)[0])
\* the list of types left as _.keys gives it
stringNotMoved(types) == types

stringLast(types) ==
  SelectSeq(types, LAMBDA n : n # "string") \o <<"string">>

\* _.find(types, function(type) { return DS.types[type].test(value); })
RECURSIVE find(_, _, _)
find(table, types, v) ==
  IF types = <<>> THEN Answer(Undefined, table)
  ELSE LET a == test(table, Head(types), v, NoFormat)
       IN  IF a.result THEN Answer(Head(types), a.table)
           ELSE find(a.table, Tail(types), v)

\* DS.typeOf(value) on the table given
typeOf(table, v) ==
  LET a == find(table, stringLast(typeNames), v)
  IN  Answer(IF a.result = Undefined THEN "string" ELSE a.result, a.table)

NoCall == [fn |-> "none", v |-> NullValue, format |-> NoFormat,
           result |-> Undefined, tick |-> 0]

InitTypes ==
  /\ regexpTable = EmptyRegexpTable
  /\ call = NoCall

\* a caller calls DS.typeOf(v)
TypeOf(v) ==
  \E a \in {typeOf(regexpTable, v)} :
    /\ regexpTable' = a.table
    /\ call' = [fn |-> "typeOf", v |-> v, format |-> NoFormat,
                result |-> a.result, tick |-> 1 - call.tick]
    /\ UNCHANGED <<busVars, deltaVars, eventVars>>

\* a caller calls DS.types[type].test(v, f)
Test(type, v, f) ==
  \E a \in {test(regexpTable, type, v, f)} :
    /\ regexpTable' = a.table
    /\ call' = [fn |-> type, v |-> v, format |-> f,
                result |-> IF a.result THEN "true" ELSE "false",
                tick |-> 1 - call.tick]
    /\ UNCHANGED <<busVars, deltaVars, eventVars>>

NextTypes ==
  \/ \E v \in RawValues : TypeOf(v)
  \/ \E type \in {"string", "boolean", "number"}, v \in RawValues :
       Test(type, v, NoFormat)
  \/ \E v \in RawValues, f \in FormatArgs : Test("time", v, f)

(***************************************************************************)
(* The specifications: one per component, the others at rest.              *)
(***************************************************************************)
DeltaAtRest == delta = [old |-> Absent, changed |-> Absent]
                 /\ verdict = NoVerdict

Init == InitBus /\ DeltaAtRest /\ InitTypes /\ EventAtRest
Spec == Init /\ [][NextBus]_vars

InitDeltas == InitBus /\ InitDelta /\ InitTypes /\ EventAtRest
SpecDelta == InitDeltas /\ [][NextDelta]_vars

SpecTypes == Init /\ [][NextTypes]_vars

\* every listener invocation returns
SpecLoop == Init /\ [][NextLoop]_vars /\ WF_vars(QuietReturn)

InitEvents == InitBus /\ DeltaAtRest /\ InitTypes /\ InitEvent
SpecEvent == InitEvents /\ [][NextEvent]_vars

(***************************************************************************)
(* Claims about the notification bus.                                      *)
(***************************************************************************)

\* C1: after trigger(e, ...) in which no listener changed the bindings, the
\* invocations made for the listeners of e are exactly the registrations
\* bound to e, each once, in the order in which they were bound.
C1_RegistrationOrder ==
  Dispatched =>
    /\ Seqs(LogOf(log, lastOp.ev)) = Seqs(Regs(lastOp.ev))
    /\ Increasing(Seqs(LogOf(log, lastOp.ev)))

\* C1 for the event names that are neither empty nor "all".
C1_NamedRegistrationOrder ==
  (Dispatched /\ lastOp.ev \notin {"", "all"}) => C1_RegistrationOrder

\* C2: on trigger(e, a1..an) with e # "all", every registration of e is
\* invoked with exactly (a1..an) and every registration of "all" with
\* exactly (e, a1..an).
C2_ArgumentDelivery ==
  (Dispatched /\ lastOp.ev # "all") =>
    /\ \A r \in 1..Len(Regs(lastOp.ev)) :
         \E i \in 1..Len(log) : /\ log[i].ev = lastOp.ev
                                /\ log[i].seq = Regs(lastOp.ev)[r].seq
    /\ \A r \in 1..Len(Regs("all")) :
         \E i \in 1..Len(log) : /\ log[i].ev = "all"
                                /\ log[i].seq = Regs("all")[r].seq
    /\ \A i \in 1..Len(log) :
         log[i].args = IF log[i].ev = "all" THEN <<lastOp.ev>> \o lastOp.args
                       ELSE lastOp.args

\* C2 for the event names that are not empty.
C2_NamedArgumentDelivery ==
  (Dispatched /\ lastOp.ev # "") => C2_ArgumentDelivery

\* C3: every trigger(e, ...), whatever the name e, invokes every listener
\* that is bound to "all" at the time of the call.
C3_WildcardReceivesEvery ==
  Dispatched =>
    \A r \in 1..Len(Regs("all")) :
      \E i \in 1..Len(log) : /\ log[i].ev = "all"
                             /\ log[i].seq = Regs("all")[r].seq

\* C3 for the event names that are not empty.
C3_NamedWildcardReceivesEvery ==
  (Dispatched /\ lastOp.ev # "") => C3_WildcardReceivesEvery

\* C4: unbind(e, cb) leaves no registration of cb on e, however many times
\* cb was bound to e, keeps every other registration of e in its order and
\* keeps the registrations of every other event (stated here for the names
\* e that are not empty).
C4_UnbindCallbackStep ==
  (lastOp'.op = "unbind" /\ lastOp'.ev \notin {Undefined, ""}
                         /\ lastOp'.callback # Undefined) =>
    /\ RegsAfter(lastOp'.ev) = Without(Regs(lastOp'.ev), lastOp'.callback)
    /\ \A e \in EventNames \ {lastOp'.ev} : RegsAfter(e) = Regs(e)
C4_UnbindPrecision == [][C4_UnbindCallbackStep]_vars

\* What unbind(e, cb) does for a name e that is not empty: it removes the
\* first registration of cb on e and nothing else.
C4_NamedUnbindFirstStep ==
  (lastOp'.op = "unbind" /\ lastOp'.ev \notin {Undefined, ""}
                         /\ lastOp'.callback # Undefined) =>
    /\ Without(RegsAfter(lastOp'.ev), lastOp'.callback)
         = Without(Regs(lastOp'.ev), lastOp'.callback)
    /\ IF Only(Regs(lastOp'.ev), lastOp'.callback) = <<>>
       THEN RegsAfter(lastOp'.ev) = Regs(lastOp'.ev)
       ELSE Only(RegsAfter(lastOp'.ev), lastOp'.callback)
              = Tail(Only(Regs(lastOp'.ev), lastOp'.callback))
    /\ \A e \in EventNames \ {lastOp'.ev} : RegsAfter(e) = Regs(e)
C4_NamedUnbindFirst == [][C4_NamedUnbindFirstStep]_vars

\* C7: unbind(e) empties the registrations of e and changes those of no
\* other event; unbind() leaves no registration on any event.
C7_UnbindEventStep ==
  (lastOp'.op = "unbind" /\ lastOp'.callback = Undefined) =>
    IF lastOp'.ev = Undefined
    THEN \A e \in EventNames : RegsAfter(e) = <<>>
    ELSE /\ RegsAfter(lastOp'.ev) = <<>>
         /\ \A e \in EventNames \ {lastOp'.ev} : RegsAfter(e) = Regs(e)
C7_UnbindEvent == [][C7_UnbindEventStep]_vars

\* C7 for the event names that are not empty.
C7_NamedUnbindEventStep == lastOp'.ev # "" => C7_UnbindEventStep
C7_NamedUnbindEvent == [][C7_NamedUnbindEventStep]_vars

\* C8: bind(e, cb, ctx) appends one registration at the end of e, changes no
\* other registration and returns the bus object; and a trigger(e) invokes a
\* callback as many times as it is bound to e.
C8_BindStep ==
  lastOp'.op = "bind" =>
    /\ RegsAfter(lastOp'.ev)
         = Append(Regs(lastOp'.ev),
                  [callback |-> lastOp'.callback, context |-> lastOp'.context,
                   seq |-> nbinds'])
    /\ \A e \in EventNames \ {lastOp'.ev} : RegsAfter(e) = Regs(e)
    /\ lastOp'.ret = This
C8_TriggerCount ==
  Dispatched =>
    \A cb \in Callbacks :
      Len(Only(LogOf(log, lastOp.ev), cb)) = Len(Only(Regs(lastOp.ev), cb))
C8_BindAppends == [][C8_BindStep /\ C8_TriggerCount']_vars

\* C8, the part about bind alone.
C8_BindAppendsOnly == [][C8_BindStep]_vars
\* C8, the part about trigger, for names that are neither empty nor "all".
C8_NamedTriggerCount ==
  (Dispatched /\ lastOp.ev \notin {"", "all"}) => C8_TriggerCount

(***************************************************************************)
(* Claims about the classifiers of a Delta.                                *)
(***************************************************************************)
Count(b) == IF b THEN 1 ELSE 0
\* the property is absent or an object with no field
Empty(v) == ~v.present \/ v.obj = <<>>

\* C5: for every Delta exactly one of isAdd, isUpdate and isDelete is true.
C5_ExactlyOne ==
  verdict.known =>
    Count(verdict.isAdd) + Count(verdict.isUpdate) + Count(verdict.isDelete) = 1

\* C5 as the code has it: at least one holds, isUpdate excludes the others,
\* and isAdd and isDelete hold together exactly for a Delta with neither
\* old nor changed fields.
C5_AtLeastOne ==
  verdict.known =>
    /\ verdict.isAdd \/ verdict.isUpdate \/ verdict.isDelete
    /\ verdict.isUpdate => ~verdict.isAdd /\ ~verdict.isDelete
    /\ (verdict.isAdd /\ verdict.isDelete)
         <=> (Empty(delta.old) /\ Empty(delta.changed))

\* C9: isAdd holds iff old is absent or has no field, isDelete iff changed
\* is absent or has no field, isUpdate iff both are present with a field.
C9_Classification ==
  verdict.known =>
    /\ verdict.isAdd <=> Empty(delta.old)
    /\ verdict.isDelete <=> Empty(delta.changed)
    /\ verdict.isUpdate <=> /\ delta.old.present /\ Len(delta.old.obj) >= 1
                            /\ delta.changed.present
                            /\ Len(delta.changed.obj) >= 1
\* a delta whose old holds two fields was classified as an update
C9_Witness ==
  /\ verdict.known
  /\ verdict.isUpdate
  /\ Len(delta.old.obj) = 2

(***************************************************************************)
(* Claims about the type registry.                                         *)
(***************************************************************************)
\* what the call c returns when it is the first call ever made
FirstResult(c) ==
  IF c.fn = "typeOf" THEN typeOf(EmptyRegexpTable, c.v).result
  ELSE IF test(EmptyRegexpTable, c.fn, c.v, c.format).result THEN "true"
  ELSE "false"

\* C6: typeOf(v) and every descriptor's test(v) return the same result on
\* every call, whatever calls were made before: every call returns what it
\* returns as the first call.
C6_Deterministic == [][call'.result = FirstResult(call')]_vars

\* C6 for the calls that do not reach the test of time on a string.
C6_StatelessStep ==
  (call'.v.t # "string" \/ call'.fn \in {"string", "boolean", "number"}
     \/ (call'.fn = "typeOf" /\ (boolean_test(call'.v) \/ number_test(call'.v))))
    => call'.result = FirstResult(call')
C6_StatelessDeterministic == [][C6_StatelessStep]_vars

NonStringTypes == {"boolean", "number", "time"}

\* C10: typeOf(v) returns a registry name; a name other than "string" only
\* if that descriptor's test(v) holds, "string" exactly when no other
\* descriptor's test(v) holds; typeOf(true) = "boolean", typeOf(42) =
\* "number", typeOf("42") = "number", typeOf("hello") = "string".
C10_TypeOfStep ==
  call'.fn = "typeOf" =>
    LET v == call'.v
        holds(n) == test(regexpTable, n, v, NoFormat).result
    IN  /\ call'.result \in NonStringTypes \cup {"string"}
        /\ call'.result \in NonStringTypes => holds(call'.result)
        /\ call'.result = "string" <=> \A n \in NonStringTypes : ~holds(n)
        /\ v = Bool(TRUE) => call'.result = "boolean"
        /\ v = Num(42) => call'.result = "number"
        /\ v = Str(<<"4", "2">>) => call'.result = "number"
        /\ v = Str(<<"h", "e", "l", "l", "o">>) => call'.result = "string"
C10_TypeOf == [][C10_TypeOfStep]_vars
\* typeOf("42") returned "number" after the RegExp of time was left with a
\* lastIndex other than 0
C10_Witness ==
  /\ call.fn = "typeOf"
  /\ call.v = Str(<<"4", "2">>)
  /\ call.result = "number"
  /\ regexpTable[format].lastIndex > 0

\* the descriptors other than string whose test(v) holds in the present
\* state of the memoised RegExp
Matching(v) ==
  {n \in NonStringTypes : test(regexpTable, n, v, NoFormat).result}

\* C11: for every raw value at most one of boolean.test, number.test and
\* time.test holds.
C11_AtMostOneTest == call.fn # "none" => Cardinality(Matching(call.v)) <= 1

\* C11 for the raw values that are strings.
C11_StringsAtMostOneTest ==
  (call.fn # "none" /\ call.v.t = "string") => Cardinality(Matching(call.v)) <= 1

\* C15: string.test(v) returns true for every raw value v.
C15_StringTestAlwaysTrue == call.fn = "string" => call.result = "true"

\* C15 for the raw values that are strings.
C15_StringTestOfStrings ==
  (call.fn = "string" /\ call.v.t = "string") => call.result = "true"

(***************************************************************************)
(* Claims about one dispatch.                                              *)
(***************************************************************************)
\* the event name of the trigger call the log belongs to
Triggered == IF tArgs = <<>> THEN Undefined ELSE tArgs[1]

\* no registration occurs twice in the invocations l
Distinct(l) == \A i, j \in 1..Len(l) : i < j => l[i].seq # l[j].seq

\* C20: during one trigger call in which no listener changes the bindings,
\* each registration is invoked at most once, for every event name.
C20_AtMostOnce == mutated = 0 => Distinct(log)

\* C20 for the event names other than "all".
C20_NamedAtMostOnce == (mutated = 0 /\ Triggered # "all") => Distinct(log)

\* C16: within one trigger(e, ...) with e other than "all", every invocation
\* of a listener bound to e comes before every invocation of a listener
\* bound to "all".
C16_NamedBeforeAll ==
  Triggered # "all" =>
    \A i, j \in 1..Len(log) : i < j => ~(log[i].ev = "all" /\ log[j].ev # "all")

\* a finished trigger("x") that invoked a listener of "x" and one of "all"
C16_Witness ==
  /\ pc = "idle" /\ lastOp.op = "trigger" /\ Triggered = "x"
  /\ \E i, j \in 1..Len(log) : i < j /\ log[i].ev = "x" /\ log[j].ev = "all"

C18_LiveTraversal ==
  \A r \in removed : \A i \in 1..Len(log) : log[i].seq # r.seq

\* C18 for the registrations removed by unbind(e, callback) with a name e
\* that is not empty.
C18_RemovedByCallback ==
  \A r \in removed :
    r.form = "unbind(e, cb)" => \A i \in 1..Len(log) : log[i].seq # r.seq

\* a listener removed a registration with unbind(e, callback) before its turn,
\* and the trigger call has returned
C18_Witness ==
  /\ pc = "idle" /\ lastOp.op = "trigger"
  /\ \E r \in removed : r.form = "unbind(e, cb)"

(***************************************************************************)
(* The storage as a refinement of one ordered sequence of <<callback,      *)
(* receiver>> pairs per event name.                                        *)
(***************************************************************************)
Receiver(context) == IF Falsy(context) THEN This ELSE context
\* the pairs of the registrations r, in order
Pairs(r) == [i \in 1..Len(r) |-> <<r[i].callback, Receiver(r[i].context)>>]
\* the pairs trigger visited on the list of event e
Visited(l, e) ==
  [i \in 1..Len(LogOf(l, e)) |-> <<LogOf(l, e)[i].callback,
                                   LogOf(l, e)[i].receiver>>]
\* the abstract state the storage stands for, before and after a step
Abs == [e \in EventNames |-> Pairs(Regs(e))]
AbsAfter == [e \in EventNames |-> Pairs(RegsAfter(e))]

\* the sequence q without its first pair of callback cb
RemoveFirst(q, cb) ==
  LET at == {i \in 1..Len(q) : q[i][1] = cb}
  IN  IF at = {} THEN q
      ELSE LET k == CHOOSE i \in at : \A j \in at : i <= j
           IN  SubSeq(q, 1, k - 1) \o SubSeq(q, k + 1, Len(q))

\* the operations of the abstract model
AbsBind(a, e, cb, context) ==
  [a EXCEPT ![e] = Append(@, <<cb, Receiver(context)>>)]
AbsUnbindCallback(a, e, cb) == [a EXCEPT ![e] = RemoveFirst(@, cb)]
AbsUnbindEvent(a, e) == [a EXCEPT ![e] = <<>>]
AbsUnbindAll(a) == [e \in EventNames |-> <<>>]

\* the step is the call op of the abstract model, made outside a dispatch
\* when it is a bind or an unbind, and the storage follows the model
Simulates(op) ==
  /\ (pc = "idle" /\ op.op = "bind") =>
       AbsAfter = AbsBind(Abs, op.ev, op.callback, op.context)
  /\ (pc = "idle" /\ op.op = "unbind") =>
       /\ (op.ev = Undefined /\ op.callback = Undefined) =>
            AbsAfter = AbsUnbindAll(Abs)
       /\ (op.ev # Undefined /\ op.callback = Undefined) =>
            AbsAfter = AbsUnbindEvent(Abs, op.ev)
       /\ (op.ev # Undefined /\ op.callback # Undefined) =>
            AbsAfter = AbsUnbindCallback(Abs, op.ev, op.callback)
  /\ (op.op = "trigger" /\ mutated' = 0) =>
       Visited(log', op.ev) = AbsAfter[op.ev]

\* C17: after any sequence of bind, unbind(), unbind(e) and unbind(e, cb)
\* calls made outside a dispatch, the pairs trigger(e) visits are exactly, in
\* order, the sequence of the abstract model in which bind appends,
\* unbind(e, cb) removes the first registration of cb on e, unbind(e) empties
\* e and unbind() empties every event.
C17_Refinement == [][Simulates(lastOp')]_vars

\* C17 for the calls whose event name is not empty and the trigger calls
\* whose event name is not "all".
C17_NamedRefinement ==
  [][(lastOp'.ev # "" /\ ~(lastOp'.op = "trigger" /\ lastOp'.ev = "all"))
       => Simulates(lastOp')]_vars

(***************************************************************************)
(* Claims about DS.Event.                                                  *)
(***************************************************************************)
\* the field names that appear in old or in changed of a delta of q
FieldNames(q) ==
  UNION {{q[k].old.obj[i][1] : i \in 1..Len(q[k].old.obj)}
         \cup {q[k].changed.obj[i][1] : i \in 1..Len(q[k].changed.obj)} :
           k \in 1..Len(q)}

\* cols holds exactly the names of set S, each once
ExactlyOnce(cols, S) ==
  /\ {cols[i] : i \in 1..Len(cols)} = S
  /\ Len(cols) = Cardinality(S)

C12_PresentAffectedColumns ==
  (columns.known /\ \A k \in 1..Len(event.deltas) :
      event.deltas[k].old.present /\ event.deltas[k].changed.present)
    => ~columns.threw /\ ExactlyOnce(columns.cols, FieldNames(event.deltas))

\* C12 when _.keys(undefined) is [], for every event.
C12_LenientAffectedColumns ==
  (columns.known /\ ~columns.threw)
    => ExactlyOnce(columns.cols, FieldNames(event.deltas))

\* C14: every Event built by the constructor or by _buildEvent holds a
\* non-empty ordered sequence of deltas: a single delta becomes a one-element
\* sequence, an array is kept with its elements in the same order.
C14_NonEmptyDeltas ==
  event.built =>
    /\ Len(event.deltas) >= 1
    /\ ~eventArg.array => event.deltas = <<eventArg.delta>>
    /\ eventArg.array => event.deltas = eventArg.elems

\* C14 without the non-emptiness.
C14_Normalised ==
  event.built =>
    /\ ~eventArg.array => event.deltas = <<eventArg.delta>>
    /\ eventArg.array => event.deltas = eventArg.elems

\* C19: trigger terminates: whenever every listener invocation returns,
\* trigger returns after finitely many listener invocations, also when
\* listeners call bind or unbind on the same bus during the dispatch.
C19_TriggerTerminates == (pc = "callback") ~> (pc = "idle")

====
